---- MODULE Spec2Model ----
(***************************************************************************)
(* A model of ergosum: the serializability search of src/ser_checker.rs    *)
(* and the History facade (ser_check, prefix_check, si_check) with its two *)
(* rewrites of src/transaction.rs.                                         *)
(*                                                                         *)
(* Vec<T> is a sequence; the source's indices are 0-based, so a Vec is     *)
(* read through At(vec, i).  HashMap is a function over its key set,       *)
(* HashSet is a set.  The key type K is String (as in the tests of         *)
(* transaction.rs) or usize, the two types with a GenerateGuard            *)
(* implementation; values are usize.                                       *)
(***************************************************************************)
EXTENDS Integers, Sequences, FiniteSets, TLC

VARIABLES
    K,              \* the key type of the history: "String" or "usize"
    history,        \* History::transactions of the history under check
    pc,             \* "idle": between calls, "check": inside SerChecker::check
    entry,          \* the entry point that is running (or ran last)
    transactions,   \* SerChecker::transactions
    searched,       \* SerChecker::searched, the frontier
    searched_cache, \* SerChecker::searched_cache
    kv_rev,         \* SerChecker::kv_rev
    stack,          \* the activation records of check(), innermost last
    result,         \* what each entry point returned
    guards,         \* the guard keys generate_guard has produced for usize keys
    dbg             \* the frontiers printed by dbg!(&self.searched), line 57

vars == <<K, history, pc, entry, transactions, searched, searched_cache, kv_rev,
          stack, result, guards, dbg>>

-----------------------------------------------------------------------------
(* Bounds of the model *)

NumKeys == 2        \* keys of a generated history
MaxVal == 1         \* values of a generated history are 0..MaxVal
MaxOps == 2         \* operations per transaction of a generated history
MaxTxs == 2         \* transactions of a generated history
MaxClients == 2     \* clients of a generated history
MaxScenarioVal == 2 \* the written values of the test scenarios are 1..MaxScenarioVal
MaxGuardKey == 4    \* usize keys 0..MaxGuardKey given to generate_guard
MaxGuardIndex == 4  \* client indices 0..MaxGuardIndex given to generate_guard
MaxGuards == 2      \* guard keys generated in one behaviour

-----------------------------------------------------------------------------
(* Vec indexing and small helpers *)

At(vec, i) == vec[i + 1]

Indices(vec) == 0 .. (Len(vec) - 1)

RECURSIVE SumSeq(_)
SumSeq(s) == IF s = <<>> THEN 0 ELSE Head(s) + SumSeq(Tail(s))

RECURSIVE Concat(_)
Concat(ss) == IF ss = <<>> THEN <<>> ELSE Head(ss) \o Concat(Tail(ss))

RECURSIVE Pow2(_)
Pow2(n) == IF n = 0 THEN 1 ELSE 2 * Pow2(n - 1)

\* The elements of a finite set of numbers in ascending order.
RECURSIVE SortedSeq(_)
SortedSeq(S) ==
    IF S = {} THEN <<>>
    ELSE LET m == CHOOSE x \in S : \A y \in S : x <= y
         IN  <<m>> \o SortedSeq(S \ {m})

\* The elements of a finite set in some fixed order.
RECURSIVE AnySeq(_)
AnySeq(S) ==
    IF S = {} THEN <<>>
    ELSE LET m == CHOOSE x \in S : TRUE
         IN  <<m>> \o AnySeq(S \ {m})

-----------------------------------------------------------------------------
(* transaction.rs: values, keys, operations, transactions *)

V0 == 0       \* usize::default()

abnormal_value == 1

\* impl GenerateGuard for String
generate_guard_String(self, index) == "__checker__" \o ToString(index) \o "__" \o self

\* impl GenerateGuard for usize: `index << 10 + *self` parses as
\* index << (10 + self).  The model's keys and indices keep 10 + self below
\* the width of usize and the result below 2^31, so no bit is shifted out
\* and the shift is a multiplication by a power of two.
generate_guard_usize(self, index) == index * Pow2(10 + self)

\* trait GenerateGuard, dispatched on the key type.
generate_guard(key, index) ==
    IF K = "usize" THEN generate_guard_usize(key, index) ELSE generate_guard_String(key, index)

Get(key, val) == [type |-> "Get", key |-> key, val |-> val]

Set(key, val) == [type |-> "Set", key |-> key, val |-> val]

Transaction(ops) == [ops |-> ops]

IsGet(op) == op.type = "Get"

IsSet(op) == op.type = "Set"

\* writes without the comparison of the key.
writes_any_key(T, key) == \E j \in 1 .. Len(T.ops) : IsSet(T.ops[j])

\* Transaction::writes
writes(T, key) == \E j \in 1 .. Len(T.ops) : IsSet(T.ops[j]) /\ T.ops[j].key = key

\* split with the halves in the wrong order.
split_writes_first(T) == <<Transaction(SelectSeq(T.ops, IsSet)), Transaction(SelectSeq(T.ops, IsGet))>>

\* Transaction::split
split(T) == <<Transaction(SelectSeq(T.ops, IsGet)), Transaction(SelectSeq(T.ops, IsSet))>>

(* History::vars.  The loop visits the operations client by client; a Get
   inserts an empty set when the key has no entry, a Set inserts the client
   index when the key has an entry and an empty set (without the index)
   when it has none. *)
ClientOps(h, index) ==
    LET c == At(h, index)
    IN  Concat([d \in 1 .. Len(c) |->
                  [j \in 1 .. Len(c[d].ops) |-> <<index, c[d].ops[j]>>]])

AllOps(h) == Concat([i \in 1 .. Len(h) |-> ClientOps(h, i - 1)])

varsStep(m, index, op) ==
    IF IsGet(op)
    THEN IF op.key \in DOMAIN m THEN m ELSE (op.key :> {}) @@ m
    ELSE IF op.key \in DOMAIN m
         THEN [m EXCEPT ![op.key] = @ \cup {index}]
         ELSE (op.key :> {}) @@ m

RECURSIVE varsFold(_, _)
varsFold(seq, n) ==
    IF n = 0 THEN <<>>
    ELSE varsStep(varsFold(seq, n - 1), seq[n][1], seq[n][2])

vars_(h) == varsFold(AllOps(h), Len(AllOps(h)))

(* History::pre_init: one more client whose single transaction sets every
   key of vars() to the default value.  The HashMap is iterated in an
   unspecified order; the order of the Sets of one transaction is never
   observed by the search, so one order stands for all. *)
pre_init(h) ==
    LET keys == AnySeq(DOMAIN vars_(h))
        ops  == [j \in 1 .. Len(keys) |-> Set(keys[j], V0)]
    IN  Append(h, <<Transaction(ops)>>)

(* History::prefix_check, the rewrite: every transaction becomes its read
   half followed by its write half. *)
split_rewrite(h) ==
    [i \in 1 .. Len(h) |->
        Concat([d \in 1 .. Len(h[i]) |-> <<split(h[i][d])[1], split(h[i][d])[2]>>])]

(* History::si_check, the rewrite.  For every Set of the write half (the
   loop runs over the original length of w.ops, so the operations it
   appends are not visited): the read half gets Set(guard(key, index), V0);
   the write half gets, for every client of vars()[key], a Set of that
   client's guard to the abnormal value, or a Get of the own guard.  The
   HashSet of clients is iterated in ascending order here. *)
siGuards(vars_map, key, index) ==
    LET clients == SortedSeq(vars_map[key])
    IN  [j \in 1 .. Len(clients) |->
            IF clients[j] # index
            THEN Set(generate_guard(key, clients[j]), abnormal_value)
            ELSE Get(generate_guard(key, clients[j]), V0)]

\* siSplit without the Set of the own guard in the read half.
siSplit_no_reserve(vars_map, T, index) ==
    LET r == split(T)[1]
        w == split(T)[2]
        n == Len(w.ops)
    IN  <<r, Transaction(w.ops \o Concat([j \in 1 .. n |-> siGuards(vars_map, w.ops[j].key, index)]))>>

siSplit(vars_map, T, index) ==
    LET r == split(T)[1]
        w == split(T)[2]
        n == Len(w.ops)
    IN  <<Transaction(r.ops \o [j \in 1 .. n |-> Set(generate_guard(w.ops[j].key, index), V0)]),
          Transaction(w.ops \o Concat([j \in 1 .. n |-> siGuards(vars_map, w.ops[j].key, index)]))>>

si_rewrite(h) ==
    LET vars_map == vars_(h)
    IN  [i \in 1 .. Len(h) |->
            Concat([d \in 1 .. Len(h[i]) |-> siSplit(vars_map, h[i][d], i - 1)])]

-----------------------------------------------------------------------------
(* ser_checker.rs *)

\* SerChecker::new, the reverse index: (key, val) -> the positions (c, d) of
\* the transactions that contain Set(key, val).
new_kv_rev(txs) ==
    LET written == {<<op[2].key, op[2].val>> : op \in {o \in {AllOps(txs)[j] : j \in 1 .. Len(AllOps(txs))} : IsSet(o[2])}}
    IN  [kv \in written |->
            {<<c, d>> \in UNION {{c} \X Indices(At(txs, c)) : c \in Indices(txs)} :
                \E j \in 1 .. Len(At(At(txs, c), d).ops) :
                    At(At(txs, c), d).ops[j] = Set(kv[1], kv[2])}]

\* SerChecker::new, the frontier: vec![0; transactions.len()]
new_searched(txs) == [i \in 1 .. Len(txs) |-> 0]

\* SerChecker::target_len
target_len(txs) == SumSeq([i \in 1 .. Len(txs) |-> Len(txs[i])])

\* SerChecker::searched_len
searched_len(F) == SumSeq(F)

(* The read-feasibility filter of check(), lines 66-77, for the transaction
   T at frontier F: the Gets of T are visited in order; kv_rev.get(..).unwrap()
   panics on a pair nobody writes, and the transaction is skipped
   (continue 'a) when every writer (c, d) of the pair has d >= searched[c]. *)
\* readFilterFrom with > in place of >=.
RECURSIVE readFilterFrom_gt(_, _, _, _)
readFilterFrom_gt(rev, F, ops, j) ==
    IF j > Len(ops) THEN "pass"
    ELSE IF ~IsGet(ops[j]) THEN readFilterFrom_gt(rev, F, ops, j + 1)
    ELSE IF <<ops[j].key, ops[j].val>> \notin DOMAIN rev THEN "panic"
    ELSE IF \A w \in rev[<<ops[j].key, ops[j].val>>] : w[2] > At(F, w[1]) THEN "skip"
    ELSE readFilterFrom_gt(rev, F, ops, j + 1)

RECURSIVE readFilterFrom(_, _, _, _)
readFilterFrom(rev, F, ops, j) ==
    IF j > Len(ops) THEN "pass"
    ELSE IF ~IsGet(ops[j]) THEN readFilterFrom(rev, F, ops, j + 1)
    ELSE IF <<ops[j].key, ops[j].val>> \notin DOMAIN rev THEN "panic"
    ELSE IF \A w \in rev[<<ops[j].key, ops[j].val>>] : w[2] >= At(F, w[1]) THEN "skip"
    ELSE readFilterFrom(rev, F, ops, j + 1)

readFilter(rev, F, T) == readFilterFrom(rev, F, T.ops, 1)

(* The write-conflict filter of check(), lines 79-106, for the transaction
   at the head of client `index`: the operations of every transaction not
   yet placed (the considered one excepted), in the order of the loops. *)
\* unplacedOps without `bottom += 1`: the considered transaction is not excluded.
unplacedOps_with_self(txs, F, index) ==
    Concat([ci \in 1 .. Len(txs) |->
        LET client_index == ci - 1
            bottom == At(F, client_index)
            client == At(txs, client_index)
        IN  Concat([k \in 1 .. (IF Len(client) > bottom THEN Len(client) - bottom ELSE 0) |->
                        At(client, bottom + k - 1).ops])])

unplacedOps(txs, F, index) ==
    Concat([ci \in 1 .. Len(txs) |->
        LET client_index == ci - 1
            bottom == At(F, client_index) + (IF client_index = index THEN 1 ELSE 0)
            client == At(txs, client_index)
        IN  Concat([k \in 1 .. (IF Len(client) > bottom THEN Len(client) - bottom ELSE 0) |->
                        At(client, bottom + k - 1).ops])])

\* writeFilterFrom that rejects as soon as one writer is placed.
RECURSIVE writeFilterFrom_some(_, _, _, _, _)
writeFilterFrom_some(rev, F, T, ops, j) ==
    IF j > Len(ops) THEN "pass"
    ELSE IF ~(IsGet(ops[j]) /\ writes(T, ops[j].key)) THEN writeFilterFrom_some(rev, F, T, ops, j + 1)
    ELSE IF <<ops[j].key, ops[j].val>> \notin DOMAIN rev THEN "panic"
    ELSE IF \E w \in rev[<<ops[j].key, ops[j].val>>] : w[2] < At(F, w[1]) THEN "skip"
    ELSE writeFilterFrom_some(rev, F, T, ops, j + 1)

RECURSIVE writeFilterFrom(_, _, _, _, _)
writeFilterFrom(rev, F, T, ops, j) ==
    IF j > Len(ops) THEN "pass"
    ELSE IF ~(IsGet(ops[j]) /\ writes(T, ops[j].key)) THEN writeFilterFrom(rev, F, T, ops, j + 1)
    ELSE IF <<ops[j].key, ops[j].val>> \notin DOMAIN rev THEN "panic"
    ELSE IF \A w \in rev[<<ops[j].key, ops[j].val>>] : w[2] < At(F, w[1]) THEN "skip"
    ELSE writeFilterFrom(rev, F, T, ops, j + 1)

writeFilter(rev, txs, F, index) ==
    writeFilterFrom(rev, F, At(At(txs, index), At(F, index)), unplacedOps(txs, F, index), 1)

\* Both filters, in the order of the code.
filters(rev, txs, F, index) ==
    LET rf == readFilter(rev, F, At(At(txs, index), At(F, index)))
    IN  IF rf # "pass" THEN rf ELSE writeFilter(rev, txs, F, index)

\* advance that leaves the frontier as it is.
advance_none(F, index) == F

\* self.searched[index] += 1 and -= 1
advance(F, index) == [F EXCEPT ![index + 1] = @ + 1]

\* retreat that forgets the undo.
retreat_none(F, index) == F

retreat(F, index) == [F EXCEPT ![index + 1] = @ - 1]

(* check() without the cache: what a call started at frontier F returns in
   isolation.  check_ is lines 58-60 followed by the loop; loop_ is the loop
   of lines 62-129 from client i on, with the recursive call of line 118 in
   place of the cache lookup. *)
RECURSIVE check_(_, _, _)
RECURSIVE loop_(_, _, _, _)
check_(rev, txs, F) ==
    IF searched_len(F) = target_len(txs) THEN "true" ELSE loop_(rev, txs, F, 0)

loop_(rev, txs, F, i) ==
    IF i = Len(txs) THEN "false"
    ELSE IF ~(At(F, i) < Len(At(txs, i))) THEN loop_(rev, txs, F, i + 1)
    ELSE LET o == filters(rev, txs, F, i)
         IN  IF o = "panic" THEN "panic"
             ELSE IF o = "skip" THEN loop_(rev, txs, F, i + 1)
             ELSE LET r == check_(rev, txs, advance(F, i))
                  IN  IF r = "false" THEN loop_(rev, txs, F, i + 1) ELSE r

-----------------------------------------------------------------------------
(* The constructions once more, statement by statement, with the
   unreachable!() branches: `hit` records that one was executed. *)

\* HashMap::insert: the new map and whether an entry was there before.
insert(m, k, v) ==
    [map |-> [x \in DOMAIN m \cup {k} |-> IF x = k THEN v ELSE m[x]],
     old |-> IF k \in DOMAIN m THEN "Some" ELSE "None"]

\* History::vars, one operation: lines 120-129 for a Get, 131-139 for a Set;
\* unreachable!() when insert returns Some.
vars_step(st, index, op) ==
    IF op.key \in DOMAIN st.map
    THEN IF IsGet(op) THEN st ELSE [st EXCEPT !.map[op.key] = @ \cup {index}]
    ELSE LET ins == insert(st.map, op.key, {})
         IN  [map |-> ins.map, hit |-> st.hit \/ ins.old = "Some"]

RECURSIVE vars_loop(_, _)
vars_loop(seq, n) ==
    IF n = 0 THEN [map |-> <<>>, hit |-> FALSE]
    ELSE vars_step(vars_loop(seq, n - 1), seq[n][1], seq[n][2])

vars_traced(h) == vars_loop(AllOps(h), Len(AllOps(h)))

\* The loop of si_check over the write half with its bound re-evaluated
\* at every iteration.
si_more_live(len, w, op_index) == op_index < Len(w.ops)

\* si_check, line 204: `for op_index in 0..w.ops.len()`; the range is
\* evaluated once, before the loop appends to w.ops.
si_more(len, w, op_index) == op_index < len

\* si_check, lines 204-235, for one transaction of client `index`:
\* unreachable!() when the key of a Set has no entry in vars_map (line 228)
\* and when the operation is a Get (line 233).
RECURSIVE si_loop(_, _, _, _, _, _)
si_loop(vars_map, r, w, len, op_index, index) ==
    IF ~si_more(len, w, op_index) THEN [r |-> r, w |-> w, hit |-> FALSE]
    ELSE LET op == At(w.ops, op_index)
         IN  IF IsSet(op) /\ op.key \in DOMAIN vars_map
             THEN si_loop(vars_map,
                          Transaction(Append(r.ops, Set(generate_guard(op.key, index), V0))),
                          Transaction(w.ops \o siGuards(vars_map, op.key, index)),
                          len, op_index + 1, index)
             ELSE [r |-> r, w |-> w, hit |-> TRUE]

si_traced(vars_map, T, index) ==
    si_loop(vars_map, split(T)[1], split(T)[2], Len(split(T)[2].ops), 0, index)

\* SerChecker::new, one operation: lines 21-35; unreachable!() when insert
\* returns Some (line 30).
new_step(st, pos, op) ==
    IF ~IsSet(op) THEN st
    ELSE IF <<op.key, op.val>> \in DOMAIN st.map
         THEN [st EXCEPT !.map[<<op.key, op.val>>] = @ \cup {pos}]
         ELSE LET ins == insert(st.map, <<op.key, op.val>>, {pos})
              IN  [map |-> ins.map, hit |-> st.hit \/ ins.old = "Some"]

\* The operations of txs with their positions, in the order of the loops.
PositionedOps(txs) ==
    Concat([ci \in 1 .. Len(txs) |->
        Concat([di \in 1 .. Len(txs[ci]) |->
            [j \in 1 .. Len(txs[ci][di].ops) |-> <<(<<ci - 1, di - 1>>), txs[ci][di].ops[j]>>]])])

RECURSIVE new_loop(_, _)
new_loop(seq, n) ==
    IF n = 0 THEN [map |-> <<>>, hit |-> FALSE]
    ELSE new_step(new_loop(seq, n - 1), seq[n][1], seq[n][2])

new_traced(txs) == new_loop(PositionedOps(txs), Len(PositionedOps(txs)))

-----------------------------------------------------------------------------
(* The histories given to the checker *)

KeyNames == <<"x", "y", "z">>

Keys == IF K = "usize" THEN 0 .. (NumKeys - 1) ELSE {KeyNames[j] : j \in 1 .. NumKeys}

Values == 0 .. MaxVal

Ops == {Get(k, v) : k \in Keys, v \in Values} \cup {Set(k, v) : k \in Keys, v \in Values}

Transactions == {Transaction(ops) : ops \in UNION {[1 .. n -> Ops] : n \in 1 .. MaxOps}}

\* Client sessions of exactly n transactions.
Sessions(n) == [1 .. n -> Transactions]

\* The numbers of transactions of the clients: at most MaxClients clients
\* and MaxTxs transactions in all.
Shapes ==
    {sh \in UNION {[1 .. n -> 1 .. MaxTxs] : n \in 1 .. MaxClients} :
        SumSeq(sh) <= MaxTxs}

HistoriesOf(sh) ==
    IF Len(sh) = 1 THEN {<<c1>> : c1 \in Sessions(sh[1])}
    ELSE IF Len(sh) = 2 THEN {<<c1, c2>> : c1 \in Sessions(sh[1]), c2 \in Sessions(sh[2])}
    ELSE {<<c1, c2, c3>> : c1 \in Sessions(sh[1]), c2 \in Sessions(sh[2]), c3 \in Sessions(sh[3])}

GeneratedHistories == UNION {HistoriesOf(sh) : sh \in Shapes}

(* The anomalies of the tests of transaction.rs, for every choice of their
   keys and written values. *)
ScenarioKeys == IF K = "usize" THEN {0, 1} ELSE {"x", "y"}

ScenarioValues == 1 .. MaxScenarioVal

LostUpdate(k, a, b) ==
    << <<Transaction(<<Get(k, V0), Set(k, a)>>)>>,
       <<Transaction(<<Get(k, V0), Set(k, b)>>)>> >>

WriteSkew(k1, k2, a, b) ==
    << <<Transaction(<<Get(k1, V0), Get(k2, V0), Set(k1, a)>>)>>,
       <<Transaction(<<Get(k1, V0), Get(k2, V0), Set(k2, b)>>)>> >>

LongFork(k1, k2, a, b) ==
    << <<Transaction(<<Get(k1, V0), Set(k1, a)>>)>>,
       <<Transaction(<<Get(k2, V0), Set(k2, b)>>)>>,
       <<Transaction(<<Get(k1, a), Get(k2, V0)>>)>>,
       <<Transaction(<<Get(k1, V0), Get(k2, b)>>)>> >>

\* tests::serializability_check
SerViolation(k1, k2, a, b) ==
    << <<Transaction(<<Set(k1, a), Set(k2, a)>>)>>,
       <<Transaction(<<Get(k1, a), Get(k2, a), Set(k1, b)>>)>>,
       <<Transaction(<<Get(k1, a), Get(k2, a), Set(k2, b)>>)>> >>

LostUpdates == {LostUpdate(k, a, b) : k \in ScenarioKeys, a \in ScenarioValues, b \in ScenarioValues}

DistinctKeys == {kk \in ScenarioKeys \X ScenarioKeys : kk[1] # kk[2]}

WriteSkews == {WriteSkew(kk[1], kk[2], a, b) : kk \in DistinctKeys, a \in ScenarioValues, b \in ScenarioValues}

LongForks == {LongFork(kk[1], kk[2], a, b) : kk \in DistinctKeys, a \in ScenarioValues, b \in ScenarioValues}

SerViolations == {SerViolation(kk[1], kk[2], a, b) : kk \in DistinctKeys, a \in ScenarioValues, b \in ScenarioValues}

Histories == GeneratedHistories \cup LostUpdates \cup WriteSkews \cup LongForks \cup SerViolations

-----------------------------------------------------------------------------
(* The state machine *)

EntryPoints == <<"ser_check", "si_check", "prefix_check">>

Frame(F) == [pc |-> "enter", index |-> 0, ret |-> FALSE, entered |-> F]

Top == stack[Len(stack)]

SetTop(f) == [stack EXCEPT ![Len(stack)] = f]

KeyTypes == {"String", "usize"}

Init ==
    /\ K \in KeyTypes
    /\ history \in Histories
    /\ pc = "idle"
    /\ entry = "none"
    /\ transactions = <<>>
    /\ searched = <<>>
    /\ searched_cache = <<>>
    /\ kv_rev = <<>>
    /\ stack = <<>>
    /\ result = [e \in {EntryPoints[j] : j \in 1 .. Len(EntryPoints)} |-> "none"]
    /\ guards = <<>>
    /\ dbg = <<>>

(* The entry points take &self and share nothing, so the order of the calls
   is immaterial; they are called once each in the order of the tests
   (ser_check, si_check, prefix_check).  Each builds its history, appends
   the initial transaction, builds the SerChecker and calls check(). *)
NextEntry ==
    IF result["ser_check"] = "none" THEN "ser_check"
    ELSE IF result["si_check"] = "none" THEN "si_check"
    ELSE IF result["prefix_check"] = "none" THEN "prefix_check"
    ELSE "none"

Start(e, h) ==
    /\ pc = "idle"
    /\ NextEntry = e
    /\ pc' = "check"
    /\ entry' = e
    /\ transactions' = pre_init(h)
    /\ searched' = new_searched(pre_init(h))
    /\ searched_cache' = <<>>
    /\ kv_rev' = new_kv_rev(pre_init(h))
    /\ stack' = <<Frame(new_searched(pre_init(h)))>>
    /\ dbg' = <<>>
    /\ UNCHANGED <<K, history, result, guards>>

\* History::ser_check
ser_check == Start("ser_check", history)

\* History::prefix_check
prefix_check == Start("prefix_check", split_rewrite(history))

\* History::si_check
si_check == Start("si_check", si_rewrite(history))

\* check(), lines 57-60: the frontier is printed; it is complete or the
\* loop begins.
CheckTerminal ==
    /\ pc = "check" /\ Top.pc = "enter"
    /\ dbg' = Append(dbg, searched)
    /\ stack' = SetTop(IF searched_len(searched) = target_len(transactions)
                       THEN [Top EXCEPT !.pc = "return", !.ret = TRUE]
                       ELSE [Top EXCEPT !.pc = "loop"])
    /\ UNCHANGED <<K, history, pc, entry, transactions, searched, searched_cache, kv_rev, result, guards>>

InLoop == pc = "check" /\ Top.pc = "loop" /\ Top.index < Len(transactions)

HasNext == At(searched, Top.index) < Len(At(transactions, Top.index))

Outcome == filters(kv_rev, transactions, searched, Top.index)

\* check(), lines 63 and 66-106: the client is exhausted, or a filter says
\* continue 'a.
CheckSkip ==
    /\ InLoop
    /\ IF HasNext THEN Outcome = "skip" ELSE TRUE
    /\ stack' = SetTop([Top EXCEPT !.index = @ + 1])
    /\ UNCHANGED <<K, history, pc, entry, transactions, searched, searched_cache, kv_rev, result, guards, dbg>>

\* check(), lines 71 and 97: unwrap() of a missing reverse-index entry.
CheckPanic ==
    /\ InLoop /\ HasNext /\ Outcome = "panic"
    /\ pc' = "idle"
    /\ stack' = <<>>
    /\ result' = [result EXCEPT ![entry] = "panic"]
    /\ UNCHANGED <<K, history, entry, transactions, searched, searched_cache, kv_rev, guards, dbg>>

\* check(), lines 108-116: the advanced frontier is in the cache.
CheckCached ==
    /\ InLoop /\ HasNext /\ Outcome = "pass"
    /\ advance(searched, Top.index) \in DOMAIN searched_cache
    /\ IF searched_cache[advance(searched, Top.index)]
       THEN /\ searched' = advance(searched, Top.index)
            /\ stack' = SetTop([Top EXCEPT !.pc = "return", !.ret = TRUE])
       ELSE /\ searched' = retreat(advance(searched, Top.index), Top.index)
            /\ stack' = SetTop([Top EXCEPT !.index = @ + 1])
    /\ UNCHANGED <<K, history, pc, entry, transactions, searched_cache, kv_rev, result, guards, dbg>>

\* check(), lines 108 and 117-118: the recursive call.
CheckRecurse ==
    /\ InLoop /\ HasNext /\ Outcome = "pass"
    /\ advance(searched, Top.index) \notin DOMAIN searched_cache
    /\ searched' = advance(searched, Top.index)
    /\ stack' = Append(stack, Frame(advance(searched, Top.index)))
    /\ UNCHANGED <<K, history, pc, entry, transactions, searched_cache, kv_rev, result, guards, dbg>>

\* check(), line 131: the loop is over.
CheckExhausted ==
    /\ pc = "check" /\ Top.pc = "loop" /\ Top.index = Len(transactions)
    /\ stack' = SetTop([Top EXCEPT !.pc = "return", !.ret = FALSE])
    /\ UNCHANGED <<K, history, pc, entry, transactions, searched, searched_cache, kv_rev, result, guards, dbg>>

\* CheckReturn that never stores the result in the cache.
CheckReturn_no_store ==
    /\ pc = "check" /\ Top.pc = "return" /\ Len(stack) > 1
    /\ LET caller == stack[Len(stack) - 1]
           rest   == SubSeq(stack, 1, Len(stack) - 2)
       IN  /\ searched_cache' = searched_cache
           /\ IF Top.ret
              THEN /\ stack' = Append(rest, [caller EXCEPT !.pc = "return", !.ret = TRUE])
                   /\ searched' = searched
              ELSE /\ stack' = Append(rest, [caller EXCEPT !.index = @ + 1])
                   /\ searched' = retreat(searched, caller.index)
    /\ UNCHANGED <<K, history, pc, entry, transactions, kv_rev, result, guards, dbg>>

\* A recursive check() returns to line 118: the result is stored under the
\* frontier as it is now; true is passed on, false undoes the advance.
CheckReturn ==
    /\ pc = "check" /\ Top.pc = "return" /\ Len(stack) > 1
    /\ LET caller == stack[Len(stack) - 1]
           rest   == SubSeq(stack, 1, Len(stack) - 2)
       IN  /\ searched_cache' = (searched :> Top.ret) @@ searched_cache
           /\ IF Top.ret
              THEN /\ stack' = Append(rest, [caller EXCEPT !.pc = "return", !.ret = TRUE])
                   /\ searched' = searched
              ELSE /\ stack' = Append(rest, [caller EXCEPT !.index = @ + 1])
                   /\ searched' = retreat(searched, caller.index)
    /\ UNCHANGED <<K, history, pc, entry, transactions, kv_rev, result, guards, dbg>>

\* The outermost check() returns to the entry point.  The checker is
\* dropped; its fields keep their last values until the next call.
CheckDone ==
    /\ pc = "check" /\ Top.pc = "return" /\ Len(stack) = 1
    /\ pc' = "idle"
    /\ stack' = <<>>
    /\ result' = [result EXCEPT ![entry] = IF Top.ret THEN "true" ELSE "false"]
    /\ UNCHANGED <<K, history, entry, transactions, searched, searched_cache, kv_rev, guards, dbg>>

Next ==
    \/ ser_check
    \/ si_check
    \/ prefix_check
    \/ CheckTerminal
    \/ CheckSkip
    \/ CheckPanic
    \/ CheckCached
    \/ CheckRecurse
    \/ CheckExhausted
    \/ CheckReturn
    \/ CheckDone

Spec == Init /\ [][Next]_vars

(* The test scenarios alone, with the smallest history that reads a pair
   nobody writes. *)
UnwrittenReads == {<< <<Transaction(<<Get(k, a)>>)>> >> : k \in ScenarioKeys, a \in ScenarioValues}

ScenarioHistories == LostUpdates \cup WriteSkews \cup LongForks \cup SerViolations \cup UnwrittenReads

InitScenarios ==
    /\ K \in KeyTypes
    /\ history \in ScenarioHistories
    /\ pc = "idle"
    /\ entry = "none"
    /\ transactions = <<>>
    /\ searched = <<>>
    /\ searched_cache = <<>>
    /\ kv_rev = <<>>
    /\ stack = <<>>
    /\ result = [e \in {EntryPoints[j] : j \in 1 .. Len(EntryPoints)} |-> "none"]
    /\ guards = <<>>
    /\ dbg = <<>>

SpecScenarios == InitScenarios /\ [][Next]_vars

(* generate_guard for usize keys, applied to at most MaxGuards pairs of a
   key and a client index. *)
InitGuard ==
    /\ K = "usize"
    /\ history = <<>>
    /\ pc = "idle"
    /\ entry = "none"
    /\ transactions = <<>>
    /\ searched = <<>>
    /\ searched_cache = <<>>
    /\ kv_rev = <<>>
    /\ stack = <<>>
    /\ result = [e \in {EntryPoints[j] : j \in 1 .. Len(EntryPoints)} |-> "none"]
    /\ guards = <<>>
    /\ dbg = <<>>

GenerateGuard ==
    \E k \in 0 .. MaxGuardKey, index \in 0 .. MaxGuardIndex :
        /\ <<k, index>> \notin DOMAIN guards
        /\ Cardinality(DOMAIN guards) < MaxGuards
        /\ guards' = (<<k, index>> :> generate_guard_usize(k, index)) @@ guards
        /\ UNCHANGED <<K, history, pc, entry, transactions, searched, searched_cache,
                       kv_rev, stack, result, dbg>>

SpecGuard == InitGuard /\ [][GenerateGuard]_vars

-----------------------------------------------------------------------------
(* What the claims speak of: serial executions and snapshot isolation *)

Finished(e) == pc = "idle" /\ result[e] # "none"

AllFinished == pc = "idle" /\ NextEntry = "none"

OpsOf(h) == {AllOps(h)[j][2] : j \in 1 .. Len(AllOps(h))}

KeysOf(h) == {op.key : op \in OpsOf(h)}

\* The transactions of h together with the initial transaction, which sets
\* every key of h to the default value, as one more client.
WithInitial(h) ==
    LET keys == AnySeq(KeysOf(h))
    IN  Append(h, <<Transaction([j \in 1 .. Len(keys) |-> Set(keys[j], V0)])>>)

\* The store after the Sets of a sequence of operations, applied in order.
RECURSIVE ApplySets(_, _)
ApplySets(store, ops) ==
    IF ops = <<>> THEN store
    ELSE ApplySets(IF IsSet(Head(ops)) THEN (Head(ops).key :> Head(ops).val) @@ store ELSE store,
                   Tail(ops))

\* Every Get of T returns what the store holds.
ReadsFrom(store, T) ==
    \A j \in 1 .. Len(T.ops) :
        IsGet(T.ops[j]) => (T.ops[j].key \in DOMAIN store /\ store[T.ops[j].key] = T.ops[j].val)

(* Some order of the transactions not yet placed at F respects the order of
   every client and lets every Get return the most recent Set of an earlier
   transaction, the store holding these most recent Sets. *)
RECURSIVE SerialFrom(_, _, _)
SerialFrom(txs, F, store) ==
    \/ \A c \in Indices(txs) : At(F, c) = Len(At(txs, c))
    \/ \E c \in Indices(txs) :
          /\ At(F, c) < Len(At(txs, c))
          /\ LET T == At(At(txs, c), At(F, c))
             IN  /\ ReadsFrom(store, T)
                 /\ SerialFrom(txs, advance(F, c), ApplySets(store, T.ops))

Serializable(h) == SerialFrom(WithInitial(h), new_searched(WithInitial(h)), <<>>)

\* Every pair read by a Get is written by a transaction of h or by the
\* initial transaction.
EveryReadWritten(h) ==
    \A op \in OpsOf(h) : IsGet(op) => (op.val = V0 \/ Set(op.key, op.val) \in OpsOf(h))

WriteKeys(T) == {T.ops[j].key : j \in {i \in 1 .. Len(T.ops) : IsSet(T.ops[i])}}

\* What a Get of key k returns from a store in which a key never written
\* holds the default value.
Lookup(store, k) == IF k \in DOMAIN store THEN store[k] ELSE V0

(* Snapshot isolation.  F counts the committed transactions of every client,
   open maps every client whose next transaction has taken its snapshot to
   the keys committed since that snapshot, store is the committed state.  A
   transaction takes its snapshot when all its Gets return the committed
   state, and commits when no key it writes was committed since. *)
RECURSIVE SnapshotFrom(_, _, _, _)
SnapshotFrom(h, F, open, store) ==
    \/ /\ \A c \in Indices(h) : At(F, c) = Len(At(h, c))
       /\ DOMAIN open = {}
    \/ \E c \in Indices(h) \ DOMAIN open :
          /\ At(F, c) < Len(At(h, c))
          /\ \A j \in 1 .. Len(At(At(h, c), At(F, c)).ops) :
                LET op == At(At(h, c), At(F, c)).ops[j]
                IN  IsGet(op) => Lookup(store, op.key) = op.val
          /\ SnapshotFrom(h, F, (c :> {}) @@ open, store)
    \/ \E c \in DOMAIN open :
          LET T == At(At(h, c), At(F, c))
          IN  /\ WriteKeys(T) \cap open[c] = {}
              /\ SnapshotFrom(h, advance(F, c),
                              [d \in DOMAIN open \ {c} |-> open[d] \cup WriteKeys(T)],
                              ApplySets(store, T.ops))

SnapshotIsolated(h) == SnapshotFrom(h, new_searched(h), <<>>, <<>>)

-----------------------------------------------------------------------------
(* The claims *)

\* C1, as claimed: whenever ser_check returns true, the history has a serial
\* order that respects every client's order and explains every Get.
C1_SerCheckSound ==
    (Finished("ser_check") /\ result["ser_check"] = "true") => Serializable(history)

\* C2: whenever every read pair has a writer and ser_check returns false,
\* the history has no serial order that explains every Get.
C2_SerCheckComplete ==
    (Finished("ser_check") /\ EveryReadWritten(history) /\ result["ser_check"] = "false")
        => ~Serializable(history)

C2_Witness ==
    /\ Finished("ser_check") /\ EveryReadWritten(history) /\ result["ser_check"] = "false"
    /\ searched_cache # <<>>

\* C3, as claimed: on a history with a Get of a pair that nobody writes,
\* every entry point completes and returns false.
C3_UnwrittenReadIsFalse ==
    \A j \in 1 .. Len(EntryPoints) :
        (Finished(EntryPoints[j]) /\ ~EveryReadWritten(history))
            => result[EntryPoints[j]] = "false"

\* C4, as claimed: si_check returns true exactly on the histories that
\* snapshot isolation admits.
C4_SiCheckDecidesSI ==
    Finished("si_check") => (result["si_check"] = "true" <=> SnapshotIsolated(history))

\* C5, as claimed: on a lost update, ser_check and si_check return false and
\* prefix_check returns true, whatever the key and the two written values.
C5_LostUpdate ==
    (AllFinished /\ history \in LostUpdates) =>
        /\ result["ser_check"] = "false"
        /\ result["si_check"] = "false"
        /\ result["prefix_check"] = "true"

\* C6: on a write skew, ser_check returns false and si_check and
\* prefix_check return true, whatever the two keys and the written values.
C6_WriteSkew ==
    (AllFinished /\ history \in WriteSkews) =>
        /\ result["ser_check"] = "false"
        /\ result["si_check"] = "true"
        /\ result["prefix_check"] = "true"

C6_Witness == AllFinished /\ history \in WriteSkews /\ result["si_check"] = "true"

\* C7, as claimed: on a long fork, ser_check, si_check and prefix_check all return
\* false, whatever the two keys and the written values.
C7_LongFork ==
    (AllFinished /\ history \in LongForks) =>
        /\ result["ser_check"] = "false"
        /\ result["si_check"] = "false"
        /\ result["prefix_check"] = "false"

Completed(e) == Finished(e) /\ result[e] # "panic"

C9_SerImpliesPrefix ==
    /\ (Completed("ser_check") /\ Completed("prefix_check") /\ result["ser_check"] = "true")
          => result["prefix_check"] = "true"
    /\ (entry = "prefix_check" /\ pc = "check") =>
          \A c \in Indices(history) : \A d \in Indices(At(history, c)) :
              /\ At(At(transactions, c), 2 * d).ops = SelectSeq(At(At(history, c), d).ops, IsGet)
              /\ At(At(transactions, c), 2 * d + 1).ops = SelectSeq(At(At(history, c), d).ops, IsSet)

\* ser_check accepted a history with a transaction that both reads and
\* writes, which the split turns into two transactions.
C9_Witness ==
    /\ Completed("ser_check") /\ Completed("prefix_check") /\ result["ser_check"] = "true"
    /\ entry = "prefix_check"
    /\ target_len(transactions) = 2 * target_len(history) + 1
    /\ \E c \in Indices(history) : \E d \in Indices(At(history, c)) :
          /\ split(At(At(history, c), d))[1].ops # <<>>
          /\ split(At(At(history, c), d))[2].ops # <<>>

\* C10, as claimed: for usize keys, different pairs of a key and a client
\* index get different guard keys, and no guard key is one of the keys.
C10_GuardsDisjoint ==
    /\ \A p \in DOMAIN guards : \A q \in DOMAIN guards : p # q => guards[p] # guards[q]
    /\ \A p \in DOMAIN guards : \A q \in DOMAIN guards : guards[p] # q[1]

\* The clients with a transaction that contains a Set of key k.
ClientsWriting(h, k) ==
    {c \in Indices(h) : \E d \in Indices(At(h, c)) : writes(At(At(h, c), d), k)}

\* C11, as claimed: in the SI rewrite the clients consulted for a key are
\* exactly the clients that write it, and so the write half of every
\* transaction of client i that writes k holds Get(guard(k, i), V0) and a
\* Set(guard(k, c), abnormal) for every other client c that writes k.
C11_ConsultedClientsAreWriters ==
    (entry = "si_check" /\ pc = "check") =>
        /\ \A k \in KeysOf(history) : vars_(history)[k] = ClientsWriting(history, k)
        /\ \A i \in Indices(history) : \A d \in Indices(At(history, i)) :
              \A k \in WriteKeys(At(At(history, i), d)) :
                  LET w == At(At(transactions, i), 2 * d + 1).ops
                      has(op) == \E j \in 1 .. Len(w) : w[j] = op
                  IN  /\ has(Get(generate_guard(k, i), V0))
                      /\ \A c \in ClientsWriting(history, k) \ {i} :
                            has(Set(generate_guard(k, c), abnormal_value))

\* C12, as claimed: every call of check(), top-level or recursive, returning
\* true or false, returns with the frontier equal to its value when the
\* call was entered.
C12_FrontierRestored ==
    (pc = "check" /\ Top.pc = "return") => searched = Top.entered

(* The search path: the transactions placed by the calls of check() that
   are in progress.  Every frame but the innermost has advanced the client
   of its loop index, from the frontier it was entered with, and waits for
   its recursive call. *)
Path == [j \in 1 .. (Len(stack) - 1) |-> <<stack[j].index, At(stack[j].entered, stack[j].index)>>]

PlacedOf(c) == Cardinality({j \in 1 .. Len(Path) : Path[j][1] = c})

\* C13: during a search every searched[c] lies between 0 and the number of
\* transactions of client c; while a call searches or returns false the
\* frontier counts, client by client, the transactions placed on the search
\* path, and once a call returns true every transaction is placed; a call
\* returns true without entering its loop exactly when it is entered with a
\* frontier whose sum is the total number of transactions.
C13_FrontierCountsPath ==
    pc = "check" =>
        /\ Len(searched) = Len(transactions)
        /\ \A c \in Indices(transactions) :
              At(searched, c) >= 0 /\ At(searched, c) <= Len(At(transactions, c))
        /\ IF Top.pc = "return" /\ Top.ret
           THEN searched_len(searched) = target_len(transactions)
           ELSE /\ searched_len(searched) = Len(Path)
                /\ \A c \in Indices(transactions) : At(searched, c) = PlacedOf(c)
        /\ Top.pc = "loop" => searched_len(Top.entered) # target_len(transactions)
        /\ (Top.pc = "return" /\ searched_len(Top.entered) = target_len(transactions))
              => (Top.ret /\ Top.index = 0 /\ searched = Top.entered)

\* A call deep in the search backtracks: it returns false after another
\* call has returned false, with transactions placed on the path.
C13_Witness ==
    /\ pc = "check" /\ Top.pc = "return" /\ ~Top.ret
    /\ Len(Path) >= 2
    /\ searched_cache # <<>>

\* A recursive check() has returned and its caller is about to store the
\* result (lines 119 and 123).
Storing == pc = "check" /\ Top.pc = "return" /\ Len(stack) > 1

\* Every entry of the cache is what check() returns in isolation from the
\* entry's frontier.
CacheSound ==
    pc = "check" =>
        \A F \in DOMAIN searched_cache :
            searched_cache[F] = (check_(kv_rev, transactions, F) = "true")

\* C14, as claimed: at every point of a search every cache entry is the
\* result check() returns from the entry's frontier in isolation, and every
\* result is stored under the frontier its sub-search was started from.
C14_MemoizationSound ==
    /\ []CacheSound
    /\ [][Storing =>
            searched_cache' = (Top.entered :> (check_(kv_rev, transactions, Top.entered) = "true"))
                                  @@ searched_cache]_vars

\* The call in progress arrives at a frontier: the transaction at the loop
\* index passes both filters and the frontier is advanced (line 108).
Arrival == InLoop /\ HasNext /\ Outcome = "pass"

\* C15: during one top-level check() no frontier is printed twice by line
\* 57, that is, check() is entered at most once for each frontier; and an
\* arrival at a frontier check() was entered with before finds it in the
\* cache, so it does not recurse.
C15_EachFrontierOnce ==
    /\ \A i \in 1 .. Len(dbg) : \A j \in 1 .. Len(dbg) : i # j => dbg[i] # dbg[j]
    /\ (Arrival /\ \E j \in 1 .. Len(dbg) : dbg[j] = advance(searched, Top.index))
          => advance(searched, Top.index) \in DOMAIN searched_cache

\* The search arrives for the second time at a frontier it has explored.
C15_Witness ==
    /\ Arrival
    /\ \E j \in 1 .. Len(dbg) : dbg[j] = advance(searched, Top.index)
    /\ advance(searched, Top.index) \in DOMAIN searched_cache

\* The transaction at position pos = <<c, d>>.
TxAt(txs, pos) == At(At(txs, pos[1]), pos[2])

\* The positions of the transactions that contain Set(k, v).
WritersOf(txs, k, v) ==
    {pos \in UNION {{c} \X Indices(At(txs, c)) : c \in Indices(txs)} :
        \E j \in 1 .. Len(TxAt(txs, pos).ops) : TxAt(txs, pos).ops[j] = Set(k, v)}

\* Every Get of T has a writer strictly behind the frontier F.
ReadsBehind(txs, F, T) ==
    \A j \in 1 .. Len(T.ops) :
        IsGet(T.ops[j]) =>
            \E w \in WritersOf(txs, T.ops[j].key, T.ops[j].val) : w[2] < At(F, w[1])

\* C16: a transaction is placed (line 108) only when each of its Gets has a
\* writer strictly behind the frontier at the moment of placement; a
\* transaction with a Get whose writers are all at or beyond the frontier,
\* itself included, is never placed.  Stated for the transaction about to
\* be placed and for every transaction on the search path.
C16_ReadFeasibility ==
    /\ Arrival => ReadsBehind(transactions, searched,
                              TxAt(transactions, <<Top.index, At(searched, Top.index)>>))
    /\ pc = "check" =>
          \A j \in 1 .. Len(Path) :
              ReadsBehind(transactions, stack[j].entered, TxAt(transactions, Path[j]))

\* A placed transaction reads a pair that it also writes itself: its own
\* position is not behind the frontier, another writer is.
C16_Witness ==
    /\ pc = "check"
    /\ \E j \in 1 .. Len(Path) :
          LET T == TxAt(transactions, Path[j])
          IN  \E a \in 1 .. Len(T.ops) : \E b \in 1 .. Len(T.ops) :
                  /\ IsGet(T.ops[a])
                  /\ T.ops[b] = Set(T.ops[a].key, T.ops[a].val)

\* The positions not yet placed at frontier F, the transaction at the head
\* of client i excepted.
OthersUnplaced(txs, F, i) ==
    {pos \in UNION {{c} \X Indices(At(txs, c)) : c \in Indices(txs)} :
        pos[2] >= At(F, pos[1]) + (IF pos[1] = i THEN 1 ELSE 0)}

\* Placing the head of client i at F strands a read: another transaction
\* not yet placed has a Get(k, v) where the head writes k and every writer
\* of (k, v) is placed.
Strands(txs, F, i) ==
    LET T == TxAt(txs, <<i, At(F, i)>>)
    IN  \E pos \in OthersUnplaced(txs, F, i) :
            \E j \in 1 .. Len(TxAt(txs, pos).ops) :
                LET op == TxAt(txs, pos).ops[j]
                IN  /\ IsGet(op)
                    /\ writes(T, op.key)
                    /\ \A w \in WritersOf(txs, op.key, op.val) : w[2] < At(F, w[1])

\* C17: a transaction that passes the filters, and every transaction on the
\* search path at the moment it was placed, strands no read; and a
\* transaction that passes the read filter is rejected by the write filter
\* only when it strands a read, so a read with a writer not yet placed
\* rejects nothing.
C17_WriteConflict ==
    /\ Arrival => ~Strands(transactions, searched, Top.index)
    /\ pc = "check" =>
          \A j \in 1 .. Len(Path) : ~Strands(transactions, stack[j].entered, Path[j][1])
    /\ (InLoop /\ HasNext
            /\ readFilter(kv_rev, searched, TxAt(transactions, <<Top.index, At(searched, Top.index)>>)) = "pass"
            /\ Outcome = "skip")
          => Strands(transactions, searched, Top.index)

\* The write filter rejects a transaction that passed the read filter.
C17_Witness ==
    /\ InLoop /\ HasNext
    /\ readFilter(kv_rev, searched, TxAt(transactions, <<Top.index, At(searched, Top.index)>>)) = "pass"
    /\ Outcome = "skip"
    /\ Len(Path) >= 1

\* One step of check().
CheckStep ==
    \/ CheckTerminal
    \/ CheckExhausted
    \/ CheckReturn
    \/ CheckDone
    \/ CheckSkip
    \/ CheckRecurse
    \/ CheckCached
    \/ CheckPanic

(* check() is sequential code without suspension points: once called, a
   step it can take is taken.  When an entry point is called is the
   caller's choice. *)
SpecFair == InitScenarios /\ [][Next]_vars /\ WF_vars(CheckStep)

\* The recursion is in order: every recursive call was entered with a
\* frontier whose sum is one larger than its caller's, and the number of
\* recursive calls in progress is at most the number of transactions.
DepthBounded ==
    pc = "check" =>
        /\ Len(stack) - 1 <= target_len(transactions)
        /\ \A j \in 2 .. Len(stack) :
              searched_len(stack[j].entered) = searched_len(stack[j - 1].entered) + 1

\* C18: on a history in which every read pair has a writer, every call of
\* an entry point returns true or false, and the depth of the recursion of
\* check() never exceeds the number of transactions of the history with
\* its initial transaction, each recursive call being entered with a
\* frontier whose sum is one larger than its caller's.
C18_Terminates ==
    /\ []DepthBounded
    /\ (pc = "check" /\ EveryReadWritten(history))
          ~> (pc = "idle" /\ entry \in DOMAIN result /\ result[entry] \in {"true", "false"})

\* The recursion is as deep as the history with its initial transaction is
\* long, on a history in which every read pair has a writer.
C18_Witness ==
    /\ pc = "check" /\ EveryReadWritten(history)
    /\ Len(stack) - 1 = target_len(transactions)
    /\ target_len(transactions) >= 3
    /\ searched_cache # <<>>

\* What si_check returns on h: the search of check() on the rewritten
\* history with its initial transaction.
si_answer(h) ==
    LET txs == pre_init(si_rewrite(h))
    IN  check_(new_kv_rev(txs), txs, new_searched(txs))

\* h with its client sessions listed in another order.
Relisted(h) == {[i \in 1 .. Len(h) |-> h[p[i]]] : p \in Permutations(1 .. Len(h))}

\* The transactions with the same read half and the same write half as T:
\* Gets and Sets keep their order, Sets may stand before Gets.
SameHalves(T) ==
    {Transaction(ops) : ops \in {o \in [1 .. Len(T.ops) -> {T.ops[j] : j \in 1 .. Len(T.ops)}] :
                                    split(Transaction(o)) = split(T)}}

\* h with one transaction replaced by one of the same halves.
Respelled(h) ==
    UNION {UNION {{[h EXCEPT ![c][d] = T] : T \in SameHalves(h[c][d])} :
                        d \in 1 .. Len(h[c])} : c \in 1 .. Len(h)}

\* C19, as claimed: si_check returns the same on the history with its
\* client sessions listed in any other order, and on the history with the
\* Sets of a transaction moved before its Gets.
C19_SiCheckOrderFree ==
    Finished("si_check") =>
        \A h \in Relisted(history) \cup Respelled(history) : si_answer(h) = result["si_check"]

\* The history an entry point hands to ser_check.
Handed(e, h) ==
    IF e = "si_check" THEN si_rewrite(h)
    ELSE IF e = "prefix_check" THEN split_rewrite(h)
    ELSE h

\* An entry point has just built its SerChecker.
Built == pc = "check" /\ Len(stack) = 1 /\ Top.pc = "enter"

\* C20: building the checker executes no unreachable!() branch.  vars(), of
\* the history and of the rewritten history, never inserts over an entry;
\* SerChecker::new never inserts over an entry of the reverse index; the
\* loop of si_check finds every key of a Set in the vars map and meets
\* Sets only, the guard operations it appends not being visited, so that
\* what it builds are the two halves the checker is given.
C20_NoUnreachable ==
    Built =>
        /\ ~vars_traced(history).hit
        /\ ~vars_traced(Handed(entry, history)).hit
        /\ ~new_traced(transactions).hit
        /\ new_traced(transactions).map = kv_rev
        /\ entry = "si_check" =>
              \A c \in Indices(history) : \A d \in Indices(At(history, c)) :
                  LET out == si_traced(vars_traced(history).map, At(At(history, c), d), c)
                  IN  /\ ~out.hit
                      /\ out.r = At(At(transactions, c), 2 * d)
                      /\ out.w = At(At(transactions, c), 2 * d + 1)

\* si_check has rewritten a history in which the loop appended guard
\* operations, a Get among them, to a write half.
C20_Witness ==
    /\ Built /\ entry = "si_check"
    /\ \E c \in Indices(history) : \E d \in Indices(At(history, c)) :
          LET w == At(At(transactions, c), 2 * d + 1).ops
          IN  /\ Len(w) > Len(split(At(At(history, c), d))[2].ops)
              /\ \E j \in 1 .. Len(w) : IsGet(w[j])

====
